---- MODULE Spec2Model ----
(***************************************************************************)
(* A model of pybleach: the Bleichenbacher attack engine of src/padding.py *)
(* (class Bleichenbacher), its worker pool (class RSAOracleWorker), the    *)
(* result collector thread, and the integer helpers of src/utils.py.       *)
(*                                                                         *)
(* Python 2 integers are unbounded, TLC's are 32 bits wide.  A product     *)
(* such as a * s is therefore never formed: x * y is kept as the pair      *)
(* <<q, r>> with x * y = q * d + r for the divisor d it is about to be     *)
(* divided by (MulDivMod), which gives the same quotient exactly.          *)
(***************************************************************************)
EXTENDS Integers, Sequences, FiniteSets, TLC

(***************************************************************************)
(* Bounds of the model.                                                    *)
(***************************************************************************)
\* the worker processes a pool may have
MaxWorkers == 2
\* capacity of the task queue (task_queue_size, 100 by default in the code)
TaskQueueSize == 1
\* tasks the engine submits in one pooled episode before it only waits
MaxIter == 140
\* how many tasks the engine may be ahead of the oldest task or result of the
\* episode that a worker, the result queue or the collector still holds
MaxLag == 2
\* search episodes (task ids) of one run_search
MaxEpisodes == 14
\* oracle answers that may deviate from the honest answer (SpecFaulty)
MaxFaults == 1
\* only the first MaxFaultIter tasks of the first search may get such an answer
MaxFaultIter == 4
\* calls of stop_search() made by the other thread (SpecStop)
MaxStopCalls == 2
\* the largest multiplier and the largest r of a call of __get_r_values
MaxS == 10000
MaxR == 240
\* the longest payload given to a builder of PKCS1_v15
MaxData == 7
\* interrupts sent to, and tasks put for, a worker run on its own
MaxInterrupts == 1
MaxFeeds == 3
\* the number of next() calls on one generator of __converge_s_interval
MaxYields == 3
\* the largest |x| and the largest y of a call of ceil_int and floor_int
MaxX == 24
MaxY == 7

(***************************************************************************)
(* Values of the program.                                                  *)
(***************************************************************************)
\* Python's None, where an integer is expected (self.__s, self.__i, s_max)
None == -1
\* a string that is no number, in the place of an integer
NotANumber == -2
\* Bleichenbacher.__POISON_PILL = (None): the sentinel of both queues
POISON_PILL == <<>>
\* result_queue_size of __worker_pool_init
ResultQueueSize == 1

(***************************************************************************)
(* src/utils.py: NumUtils                                                  *)
(***************************************************************************)
\* ceil_int with a division that rounds towards zero
ceil_int_truncated(x, y) ==
  (IF x >= 0 THEN x \div y ELSE 0 - ((0 - x) \div y))
  + (IF x % y # 0 THEN 1 ELSE 0)

\* x/y + (x%y != 0), Python 2 integer division (floor, also for x < 0)
ceil_int(x, y) == (x \div y) + (IF x % y # 0 THEN 1 ELSE 0)

floor_int(x, y) == x \div y

\* 2^j
RECURSIVE Pow2(_)
Pow2(j) == IF j <= 0 THEN 1 ELSE 2 * Pow2(j - 1)

\* ceil(log(num) / log(2)): the least j with 2^j >= num
RECURSIVE CeilLog2From(_, _)
CeilLog2From(num, j) == IF Pow2(j) >= num THEN j ELSE CeilLog2From(num, j + 1)

bits_to_hold(val, unit) == CeilLog2From(val, 0) \div unit

bytes_to_hold(val) == bits_to_hold(val, 8)

\* int(pow(2, ceil(log(num) / log(2)))), for val > 0
pow2_round(val) == Pow2(CeilLog2From(val, 0))

(***************************************************************************)
(* Products wider than 32 bits.                                            *)
(***************************************************************************)
\* <<q, r>> with x * y = q * d + r and 0 <= r < d, for 0 <= x, d < 2^24 and
\* y >= 0, taking y six bits at a time: no intermediate value reaches 2^31.
\* (The test h[2] >= 0 makes TLC evaluate h before it goes on: it is always
\* true.)
RECURSIVE MulDivMod(_, _, _)
MulDivMod(x, y, d) ==
  IF y = 0 THEN <<0, 0>>
  ELSE LET h == MulDivMod(x, y \div 64, d)
           t == 64 * h[2] + (y % 64) * x
       IN  IF h[2] >= 0 THEN <<64 * h[1] + (t \div d), t % d>> ELSE h

\* ceil_int(x * y + z, d)
ceil_int_prod(x, y, z, d) ==
  LET qr == MulDivMod(x, y, d) IN qr[1] + ceil_int(qr[2] + z, d)

\* floor_int(x * y + z, d)
floor_int_prod(x, y, z, d) ==
  LET qr == MulDivMod(x, y, d) IN qr[1] + floor_int(qr[2] + z, d)

\* (x * y) % m
MulMod(x, y, m) ==
  LET xm == x % m
      ym == y % m
  IN  IF xm >= 0 /\ ym >= 0 THEN MulDivMod(xm, ym, m)[2] ELSE 0

\* (x ** y) % m, by squaring
RECURSIVE PowModRec(_, _, _)
PowModRec(x, y, m) ==
  IF y = 0 THEN 1 % m
  ELSE LET h == PowModRec(x, y \div 2, m)
           sq == MulMod(h, h, m)
       IN  IF h >= 0 /\ sq >= 0
           THEN (IF y % 2 = 1 THEN MulMod(sq, x, m) ELSE sq)
           ELSE 0

PowMod(x, y, m) == IF x >= 0 /\ y >= 0 /\ m > 0 THEN PowModRec(x, y, m) ELSE 0

(***************************************************************************)
(* The inputs: the target key, the plaintext behind the captured           *)
(* ciphertext, the pool size.  d and m0 are known to the oracle only.      *)
(***************************************************************************)
\* n = 2897 * 2903; the search for this plaintext narrows to one interval
\* every time
Key1 == [n |-> 8409991, e |-> 65537, d |-> 7082337, m0 |-> 190537]
\* the first conforming s of this plaintext, 129, leaves two intervals
Key2 == [n |-> 8409991, e |-> 65537, d |-> 7082337, m0 |-> 196607]

Setups ==
  { [key |-> Key1, pool_size |-> p] : p \in 1 .. MaxWorkers }
  \cup { [key |-> Key2, pool_size |-> 1] }

VARIABLES
  key,                  \* the target: n, e (public), d, m0 (the oracle's)
  B,                    \* self.B
  call_pc, call_args,   \* one call of a function on its own: where it is,
  call_out,             \* its arguments and what it returned or raised
  pool_size,            \* self.__pool_size
  faults_left,          \* oracle answers that may still deviate
  c,                    \* the ciphertext given to run_search
  M, s_min, s_max, i, a, b, it,     \* locals of run_search
  found_solution,       \* self.found_solution
  s_search_running,     \* self.s_search_running
  task_id,              \* self.__task_id
  self_s, self_i,       \* self.__s, self.__i
  ss_s, ss_i, ss_s_max, \* locals s, i and argument s_max of s_search
  ss_caller,            \* where s_search returns to
  ret_s,                \* the first value of "return self.__s, self.__i"
  engine_pc, engine_error, result,
  task_queue, result_queue, task_queue_closed, result_queue_closed,
  worker_pc, worker_task, worker_result,
  collector_pc, collector_result,
  stop_pc, stop_p,      \* stop_search as run by the engine and by the other thread
  other_calls,          \* calls of stop_search() by the other thread
  first_collected,      \* history: the first result collected in this episode
  accepted, rejected,   \* history: tasks a worker's query accepted, rejected
  published,            \* history: results put on the result queue by workers
  raised_on,            \* history: workers whose oracle query raised
  sigint_ignored,       \* per worker: SIGINT is set to SIG_IGN in its process
  interrupts_left,      \* interrupts that may still be sent to a worker
  feeds_left            \* tasks a caller of a worker on its own may still put

vars ==
  <<key, B, call_pc, call_args, call_out, pool_size, faults_left, c, M, s_min, s_max, i, a, b, it,
    found_solution, s_search_running, task_id, self_s, self_i, ss_s, ss_i,
    ss_s_max, ss_caller, ret_s, engine_pc, engine_error, result, task_queue,
    result_queue, task_queue_closed, result_queue_closed, worker_pc,
    worker_task, worker_result, collector_pc, collector_result, stop_pc,
    stop_p, other_calls, first_collected, accepted, rejected, published,
    raised_on, sigint_ignored, interrupts_left, feeds_left>>

Workers == 1 .. MaxWorkers
Pool == 1 .. pool_size

(***************************************************************************)
(* Bleichenbacher.__init__: the values derived from the modulus.           *)
(***************************************************************************)
n == key.n
e == key.e

bits_needed == bytes_to_hold(n) * 8
k == pow2_round(bits_needed)
B2 == 2 * B
B3 == 3 * B
M0 == {<<B2, B3 - 1>>}
s_min_start == ceil_int(n, B3)

(***************************************************************************)
(* The oracle.  The honest one decrypts c_prime and accepts exactly the    *)
(* plaintexts of [B2, B3 - 1]; an answer may deviate from it, or the query *)
(* raise, while faults_left > 0.                                           *)
(***************************************************************************)
HonestQuery(c_prime) ==
  LET m == PowMod(c_prime, key.d, n) IN B2 <= m /\ m <= B3 - 1

\* what oracle.query(c_prime, callback) may do, with the faults it uses up:
\* return True, return False, or raise
QueryOutcomes(c_prime, episode, iter) ==
  LET honest == IF HonestQuery(c_prime) THEN "True" ELSE "False"
      other == IF honest = "True" THEN "False" ELSE "True"
  IN  IF faults_left > 0 /\ episode = 1 /\ iter <= MaxFaultIter
      THEN {<<honest, 0>>, <<other, 1>>, <<"raise", 1>>}
      ELSE {<<honest, 0>>}

\* c_prime = (c * (s ** e)) % n
CPrime(cc, s) == MulMod(cc, PowMod(s, e, n), n)

\* __get_r_values with B3 in place of B2 for r_max
get_r_values_low(s, intervals) ==
  UNION { LET r_min == ceil_int_prod(iv[1], s, 1 - B3, n)
              r_max == floor_int_prod(iv[2], s, 0 - B3, n)
          IN  r_min .. r_max : iv \in intervals }

\* __get_r_values with floor_int in place of ceil_int for r_min
get_r_values_floored(s, intervals) ==
  UNION { LET r_min == floor_int_prod(iv[1], s, 1 - B3, n)
              r_max == floor_int_prod(iv[2], s, 0 - B2, n)
          IN  r_min .. r_max : iv \in intervals }

(***************************************************************************)
(* Bleichenbacher: interval narrowing.                                     *)
(***************************************************************************)
\* __get_r_values: the values of r for s and the intervals
get_r_values(s, intervals) ==
  UNION { LET r_min == ceil_int_prod(iv[1], s, 1 - B3, n)
              r_max == floor_int_prod(iv[2], s, 0 - B2, n)
          IN  r_min .. r_max : iv \in intervals }

\* __get_search_intervals that keeps only the lower end of every interval
get_search_intervals_point(R, s, Mv) ==
  LET new(iv, r) ==
        LET new_a == ceil_int_prod(r, n, B2, s)
            lo == IF iv[1] >= new_a THEN iv[1] ELSE new_a
        IN  << lo, lo >>
      new_M == { new(iv, r) : iv \in Mv, r \in R }
  IN  { p \in new_M : p[1] <= p[2] }

\* __get_search_intervals with 2B + B/2 for the upper end 3B - 1
get_search_intervals_halved(R, s, Mv) ==
  LET new(iv, r) ==
        LET new_a == ceil_int_prod(r, n, B2, s)
            new_b == floor_int_prod(r, n, B2 + (B \div 2), s)
        IN  << IF iv[1] >= new_a THEN iv[1] ELSE new_a,
               IF iv[2] <= new_b THEN iv[2] ELSE new_b >>
      new_M == { new(iv, r) : iv \in Mv, r \in R }
  IN  { p \in new_M : p[1] <= p[2] }

\* __get_search_intervals without the max and min against the old interval
get_search_intervals_unclipped(R, s, Mv) ==
  LET new(iv, r) ==
        << ceil_int_prod(r, n, B2, s), floor_int_prod(r, n, B3 - 1, s) >>
      new_M == { new(iv, r) : iv \in Mv, r \in R }
  IN  { p \in new_M : p[1] <= p[2] }

\* __get_search_intervals that drops the intervals of one value
get_search_intervals_strict(R, s, Mv) ==
  LET new(iv, r) ==
        LET new_a == ceil_int_prod(r, n, B2, s)
            new_b == floor_int_prod(r, n, B3 - 1, s)
        IN  << IF iv[1] >= new_a THEN iv[1] ELSE new_a,
               IF iv[2] <= new_b THEN iv[2] ELSE new_b >>
      new_M == { new(iv, r) : iv \in Mv, r \in R }
  IN  { p \in new_M : p[1] < p[2] }

\* __get_search_intervals
get_search_intervals(R, s, Mv) ==
  LET new(iv, r) ==
        LET new_a == ceil_int_prod(r, n, B2, s)
            new_b == floor_int_prod(r, n, B3 - 1, s)
        IN  << IF iv[1] >= new_a THEN iv[1] ELSE new_a,
               IF iv[2] <= new_b THEN iv[2] ELSE new_b >>
      new_M == { new(iv, r) : iv \in Mv, r \in R }
  IN  { p \in new_M : p[1] <= p[2] }

\* __narrow_interval that narrows the initial interval M0 in place of M
narrow_interval_initial(s, Mv) ==
  get_search_intervals(get_r_values(s, Mv), s, M0)

\* __narrow_interval, without its log lines
narrow_interval(s, Mv) == get_search_intervals(get_r_values(s, Mv), s, Mv)

\* list(M)[0] of a one-element M
only(Mv) == CHOOSE iv \in Mv : TRUE

\* __converge_s_interval: the generator object before its first next()
NoIt == [s |-> None, M |-> {}, started |-> FALSE, a |-> None, b |-> None, r |-> None]
converge_s_interval(s, Mv) ==
  [s |-> s, M |-> Mv, started |-> FALSE, a |-> None, b |-> None, r |-> None]

\* it_started with r = floor((b*s - B2)/n), without the factor 2
it_started_single(g) ==
  IF g.started THEN g
  ELSE LET iv == only(g.M)
       IN  [g EXCEPT !.started = TRUE, !.a = iv[1], !.b = iv[2],
                     !.r = floor_int_prod(iv[2], g.s, 0 - B2, n)]

\* the generator once its body has run to the loop: a, b and the first r
it_started(g) ==
  IF g.started THEN g
  ELSE LET iv == only(g.M)
       IN  [g EXCEPT !.started = TRUE, !.a = iv[1], !.b = iv[2],
                     !.r = floor_int_prod(2 * iv[2], g.s, 0 - 2 * B2, n)]

\* the pair (s_min, s_max) that next() yields
it_yield(g) ==
  << ceil_int_prod(g.r, n, B2, g.b), floor_int_prod(g.r, n, B3, g.a) >>

(***************************************************************************)
(* The initial states: an engine just constructed, nothing started.        *)
(***************************************************************************)
InitState(S, F) ==
  /\ \E setup \in S : key = setup.key /\ pool_size = setup.pool_size
  /\ B = Pow2(k - 16)
  /\ faults_left \in F
  /\ c = PowMod(key.m0, key.e, key.n)
  /\ M = {} /\ s_min = None /\ s_max = None /\ i = None /\ a = None /\ b = None
  /\ it = NoIt
  /\ found_solution = FALSE
  /\ s_search_running = FALSE
  /\ task_id = None /\ self_s = None /\ self_i = None
  /\ ss_s = None /\ ss_i = None /\ ss_s_max = None /\ ss_caller = "none"
  /\ ret_s = None
  /\ engine_pc = "idle" /\ engine_error = "none" /\ result = <<>>
  /\ task_queue = <<>> /\ result_queue = <<>>
  /\ task_queue_closed = FALSE /\ result_queue_closed = FALSE
  /\ worker_pc = [w \in Workers |-> "unborn"]
  /\ worker_task = [w \in Workers |-> <<>>]
  /\ worker_result = [w \in Workers |-> <<>>]
  /\ collector_pc = "unborn" /\ collector_result = <<>>
  /\ stop_pc = [t \in {"engine", "other"} |-> "none"]
  /\ stop_p = [t \in {"engine", "other"} |-> 1]
  /\ other_calls = 0
  /\ first_collected = <<>>
  /\ accepted = {} /\ rejected = {} /\ published = {} /\ raised_on = {}
  /\ sigint_ignored = [w \in Workers |-> FALSE]

\* no worker is run on its own, none is sent an interrupt
NoCaller == interrupts_left = 0 /\ feeds_left = 0

\* no function is called on its own
InitWith(S, F) ==
  /\ InitState(S, F)
  /\ NoCaller
  /\ call_pc = "none" /\ call_args = <<>> /\ call_out = <<>>

Init == InitWith(Setups, {0})

(***************************************************************************)
(* RSAOracleWorker.run                                                     *)
(***************************************************************************)
engine_vars ==
  <<c, M, s_min, s_max, i, a, b, it, found_solution, task_id, ss_s, ss_i,
    ss_s_max, ss_caller, ret_s, engine_pc, engine_error, result>>
shared_vars == <<s_search_running, self_s, self_i>>
caller_vars == <<interrupts_left, feeds_left>>
config_vars ==
  <<key, B, pool_size, call_pc, call_args, call_out, sigint_ignored,
    caller_vars>>
stop_vars == <<stop_pc, stop_p, other_calls, task_queue_closed, result_queue_closed>>
collector_vars == <<collector_pc, collector_result, first_collected>>
worker_vars == <<worker_pc, worker_task, worker_result>>
history_vars == <<accepted, rejected, published, raised_on>>

\* the engine is inside s_search, past line 300
SearchPcs ==
  {"ss_clr_s", "ss_clr_i", "ss_loop", "ss_submit", "ss_hit_s", "ss_hit_i",
   "ss_hit_run", "ss_ret_s", "ss_ret_i"}

\* RSATask.__init__ raises ValueError for the task, which __parse_task turns
\* into None: not 4 fields, or a c that to_int cannot convert
Unparsed(task) == Len(task) # 4 \/ task[2] = NotANumber

\* task = self.tasks_queue.get(); the sentinel ends the loop; a task is
\* parsed: a ValueError skips it, the TypeError of int(None) is not caught,
\* and a task that parses sets SIGINT to SIG_IGN (line 50)
WorkerGet(w) ==
  /\ worker_pc[w] = "get"
  /\ task_queue # <<>>
  /\ task_queue' = Tail(task_queue)
  /\ LET task == Head(task_queue)
     IN  IF task = POISON_PILL
         THEN /\ worker_pc' = [worker_pc EXCEPT ![w] = "exited"]
              /\ UNCHANGED <<worker_task, sigint_ignored>>
         ELSE IF Unparsed(task)
         THEN UNCHANGED <<worker_pc, worker_task, sigint_ignored>>
         ELSE IF task[2] = None
         THEN /\ worker_pc' = [worker_pc EXCEPT ![w] = "dead"]
              /\ UNCHANGED <<worker_task, sigint_ignored>>
         ELSE /\ worker_pc' = [worker_pc EXCEPT ![w] = "query"]
              /\ worker_task' = [worker_task EXCEPT ![w] = task]
              /\ sigint_ignored' = [sigint_ignored EXCEPT ![w] = TRUE]
  /\ UNCHANGED <<engine_vars, shared_vars, key, B, pool_size, call_pc,
                 call_args, call_out, caller_vars, stop_vars,
                 collector_vars, faults_left, result_queue, worker_result,
                 accepted, rejected, published, raised_on>>

\* the result tuple with s and i in each other's place
WorkerResultOf_swapped(task, oracle_result) ==
  <<task[1], oracle_result, task[4], task[3]>>

\* the result tuple a worker builds for its task
WorkerResultOf(task, oracle_result) == <<task[1], oracle_result, task[3], task[4]>>

\* c_prime = (c * s ** e) % n; oracle_result = self.oracle.query(c_prime, ...)
WorkerQuery(w) ==
  /\ worker_pc[w] = "query"
  /\ LET task == worker_task[w]
         c_prime == CPrime(task[2], task[3])
     IN  \E o \in QueryOutcomes(c_prime, task[1], task[4]) :
           /\ faults_left' = faults_left - o[2]
           /\ IF o[1] = "raise"
              THEN /\ worker_pc' = [worker_pc EXCEPT ![w] = "dead"]
                   /\ raised_on' = raised_on \cup {w}
                   /\ UNCHANGED <<worker_result, accepted, rejected>>
              ELSE IF o[1] = "True"
              THEN /\ worker_pc' = [worker_pc EXCEPT ![w] = "put"]
                   /\ worker_result' =
                        [worker_result EXCEPT ![w] = WorkerResultOf(task, TRUE)]
                   /\ accepted' = accepted \cup {task}
                   /\ UNCHANGED <<rejected, raised_on>>
              ELSE /\ worker_pc' = [worker_pc EXCEPT ![w] = "get"]
                   /\ rejected' = rejected \cup {task}
                   /\ UNCHANGED <<worker_result, accepted, raised_on>>
  /\ UNCHANGED <<engine_vars, shared_vars, config_vars, stop_vars,
                 collector_vars, task_queue, result_queue, worker_task,
                 published>>

\* self.results_queue.put(result): waits while the queue is full
WorkerPut(w) ==
  /\ worker_pc[w] = "put"
  /\ Len(result_queue) < ResultQueueSize
  /\ result_queue' = Append(result_queue, worker_result[w])
  /\ published' = published \cup {worker_result[w]}
  /\ worker_pc' = [worker_pc EXCEPT ![w] = "get"]
  /\ UNCHANGED <<engine_vars, shared_vars, config_vars, stop_vars,
                 collector_vars, faults_left, task_queue, worker_task,
                 worker_result, accepted, rejected, raised_on>>

(***************************************************************************)
(* Bleichenbacher.__get_task_results: the collector thread                 *)
(***************************************************************************)
\* __get_task_results that only clears the flag for a result: no write of
\* self.__s and self.__i
CollectorGet_flag_only ==
  /\ collector_pc = "get"
  /\ \/ /\ result_queue_closed
        /\ collector_pc' = "crashed"
        /\ UNCHANGED <<result_queue, collector_result, first_collected>>
     \/ /\ ~result_queue_closed
        /\ result_queue # <<>>
        /\ result_queue' = Tail(result_queue)
        /\ collector_result' = Head(result_queue)
        /\ IF Head(result_queue) = POISON_PILL
           THEN /\ collector_pc' = "crashed"
                /\ UNCHANGED first_collected
           ELSE /\ collector_pc' = "write_run"
                /\ first_collected' =
                     IF first_collected = <<>> /\ engine_pc \in SearchPcs
                     THEN Head(result_queue) ELSE first_collected
  /\ UNCHANGED <<engine_vars, shared_vars, config_vars, stop_vars,
                 faults_left, task_queue, worker_pc, worker_task,
                 worker_result, accepted, rejected, published, raised_on>>

\* result = self.__result_queue.get(), and the log lines that index it
CollectorGet ==
  /\ collector_pc = "get"
  /\ \/ /\ result_queue_closed
        /\ collector_pc' = "crashed"
        /\ UNCHANGED <<result_queue, collector_result, first_collected>>
     \/ /\ ~result_queue_closed
        /\ result_queue # <<>>
        /\ result_queue' = Tail(result_queue)
        /\ collector_result' = Head(result_queue)
        /\ IF Head(result_queue) = POISON_PILL
           THEN /\ collector_pc' = "crashed"
                /\ UNCHANGED first_collected
           ELSE /\ collector_pc' = "write_s"
                /\ first_collected' =
                     IF first_collected = <<>> /\ engine_pc \in SearchPcs
                     THEN Head(result_queue) ELSE first_collected
  /\ UNCHANGED <<engine_vars, shared_vars, config_vars, stop_vars,
                 faults_left, task_queue, worker_pc, worker_task,
                 worker_result, accepted, rejected, published, raised_on>>

\* self.__s = result[2]
CollectorWriteS ==
  /\ collector_pc = "write_s"
  /\ self_s' = collector_result[3]
  /\ collector_pc' = "write_i"
  /\ UNCHANGED <<engine_vars, config_vars, stop_vars, worker_vars,
                 history_vars, faults_left, task_queue, result_queue,
                 s_search_running, self_i, collector_result, first_collected>>

\* self.__i = result[3]
CollectorWriteI ==
  /\ collector_pc = "write_i"
  /\ self_i' = collector_result[4]
  /\ collector_pc' = "write_run"
  /\ UNCHANGED <<engine_vars, config_vars, stop_vars, worker_vars,
                 history_vars, faults_left, task_queue, result_queue,
                 s_search_running, self_s, collector_result, first_collected>>

\* self.s_search_running = False
CollectorWriteRunning ==
  /\ collector_pc = "write_run"
  /\ s_search_running' = FALSE
  /\ collector_pc' = "get"
  /\ UNCHANGED <<engine_vars, config_vars, stop_vars, worker_vars,
                 history_vars, faults_left, task_queue, result_queue,
                 self_s, self_i, collector_result, first_collected>>

(***************************************************************************)
(* Bleichenbacher.run_search and s_search: the engine thread               *)
(***************************************************************************)
pool_vars == <<task_queue, result_queue, worker_vars, collector_vars>>

\* the engine thread ends with an exception
Raise(err) ==
  /\ engine_pc' = "raised"
  /\ engine_error' = err

\* the call of s_search with the local i starting at 0
CallSearch_from_zero(smin, smax, caller) ==
  /\ ss_s' = smin
  /\ ss_i' = 0
  /\ ss_s_max' = smax
  /\ ss_caller' = caller
  /\ engine_pc' = "ss_run"

\* the call s_search(c, smin, smax): its arguments and locals (lines 296-298)
CallSearch(smin, smax, caller) ==
  /\ ss_s' = smin
  /\ ss_i' = 1
  /\ ss_s_max' = smax
  /\ ss_caller' = caller
  /\ engine_pc' = "ss_run"

\* run_search up to its first s_search: the pool and the collector are started
RunSearch ==
  /\ engine_pc = "idle"
  /\ M' = M0
  /\ s_min' = s_min_start
  /\ s_max' = None
  /\ task_id' = 0
  /\ task_queue' = <<>> /\ result_queue' = <<>>
  /\ worker_pc' = [w \in Workers |-> IF w \in Pool THEN "get" ELSE "unborn"]
  /\ collector_pc' = "get"
  /\ CallSearch(s_min_start, None, "first")
  /\ UNCHANGED <<config_vars, shared_vars, stop_vars, history_vars,
                 faults_left, c, i, a, b, it, found_solution, ret_s,
                 engine_error, result, worker_task, worker_result,
                 collector_result, first_collected>>

\* self.s_search_running = True; self.__task_id += 1
SearchStart ==
  /\ engine_pc = "ss_run"
  /\ task_id < MaxEpisodes
  /\ s_search_running' = TRUE
  /\ task_id' = task_id + 1
  /\ first_collected' = <<>>
  /\ engine_pc' = "ss_clr_s"
  /\ UNCHANGED <<config_vars, stop_vars, history_vars, worker_vars,
                 faults_left, c, M, s_min, s_max, i, a, b, it, found_solution,
                 ss_s, ss_i, ss_s_max, ss_caller, ret_s, engine_error, result,
                 self_s, self_i, task_queue, result_queue, collector_pc,
                 collector_result>>

\* self.__s = None
SearchClearS ==
  /\ engine_pc = "ss_clr_s"
  /\ self_s' = None
  /\ engine_pc' = "ss_clr_i"
  /\ UNCHANGED <<config_vars, stop_vars, history_vars, pool_vars,
                 faults_left, c, M, s_min, s_max, i, a, b, it, found_solution,
                 task_id, ss_s, ss_i, ss_s_max, ss_caller, ret_s,
                 engine_error, result, self_i, s_search_running>>

\* self.__i = None
SearchClearI ==
  /\ engine_pc = "ss_clr_i"
  /\ self_i' = None
  /\ engine_pc' = "ss_loop"
  /\ UNCHANGED <<config_vars, stop_vars, history_vars, pool_vars,
                 faults_left, c, M, s_min, s_max, i, a, b, it, found_solution,
                 task_id, ss_s, ss_i, ss_s_max, ss_caller, ret_s,
                 engine_error, result, self_s, s_search_running>>

\* while self.s_search_running: one test of the flag and, for a bounded
\* search, the body of the loop up to its first write of a shared field
SearchLoop ==
  /\ engine_pc = "ss_loop"
  /\ IF ~s_search_running
     THEN /\ engine_pc' = "ss_ret_s"
          /\ UNCHANGED <<ss_s, ss_i, s_search_running, faults_left, engine_error>>
     ELSE IF ss_s_max = None
     THEN /\ engine_pc' = "ss_submit"
          /\ UNCHANGED <<ss_s, ss_i, s_search_running, faults_left, engine_error>>
     ELSE IF ss_s > ss_s_max
     THEN /\ s_search_running' = FALSE
          /\ ss_i' = ss_i + 1
          /\ ss_s' = ss_s + 1
          /\ UNCHANGED <<engine_pc, faults_left, engine_error>>
     ELSE \E o \in QueryOutcomes(CPrime(c, ss_s), task_id, ss_i) :
            /\ faults_left' = faults_left - o[2]
            /\ IF o[1] = "raise"
               THEN /\ Raise("OracleError")
                    /\ UNCHANGED <<ss_s, ss_i>>
               ELSE IF o[1] = "True"
               THEN /\ engine_pc' = "ss_hit_s"
                    /\ UNCHANGED <<ss_s, ss_i, engine_error>>
               ELSE /\ ss_i' = ss_i + 1
                    /\ ss_s' = ss_s + 1
                    /\ UNCHANGED <<engine_pc, engine_error>>
            /\ UNCHANGED s_search_running
  /\ UNCHANGED <<config_vars, stop_vars, history_vars, pool_vars, c, M,
                 s_min, s_max, i, a, b, it, found_solution, task_id, ss_s_max,
                 ss_caller, ret_s, result, self_s, self_i>>

\* the indices of the tasks and results of this episode that a worker, the
\* result queue or the collector holds
InFlight ==
  { worker_task[w][4] : w \in {v \in Workers : worker_pc[v] \in {"query", "put"}
                                               /\ worker_task[v][1] = task_id} }
  \cup { result_queue[j][4] : j \in {x \in 1 .. Len(result_queue) :
                                       /\ result_queue[x] # POISON_PILL
                                       /\ result_queue[x][1] = task_id} }
  \cup (IF collector_pc \in {"write_s", "write_i", "write_run"}
           /\ collector_result[1] = task_id
        THEN {collector_result[4]} ELSE {})

\* self.__submit_pool_task((self.__task_id, c, s, i)); i += 1; s += 1
SearchSubmit ==
  /\ engine_pc = "ss_submit"
  /\ IF task_queue_closed
     THEN /\ Raise("AssertionError")
          /\ UNCHANGED <<task_queue, ss_s, ss_i>>
     ELSE /\ Len(task_queue) < TaskQueueSize
          /\ ss_i <= MaxIter
          /\ \A idx \in InFlight : ss_i - idx <= MaxLag
          /\ task_queue' = Append(task_queue, <<task_id, c, ss_s, ss_i>>)
          /\ ss_i' = ss_i + 1
          /\ ss_s' = ss_s + 1
          /\ engine_pc' = "ss_loop"
          /\ UNCHANGED engine_error
  /\ UNCHANGED <<config_vars, stop_vars, history_vars, shared_vars,
                 worker_vars, collector_vars, faults_left, c, M, s_min, s_max,
                 i, a, b, it, found_solution, task_id, ss_s_max, ss_caller,
                 ret_s, result, result_queue>>

\* the bounded search found one: self.__s = s
SearchHitS ==
  /\ engine_pc = "ss_hit_s"
  /\ self_s' = ss_s
  /\ engine_pc' = "ss_hit_i"
  /\ UNCHANGED <<config_vars, stop_vars, history_vars, pool_vars,
                 faults_left, c, M, s_min, s_max, i, a, b, it, found_solution,
                 task_id, ss_s, ss_i, ss_s_max, ss_caller, ret_s,
                 engine_error, result, self_i, s_search_running>>

\* self.__i = i
SearchHitI ==
  /\ engine_pc = "ss_hit_i"
  /\ self_i' = ss_i
  /\ engine_pc' = "ss_hit_run"
  /\ UNCHANGED <<config_vars, stop_vars, history_vars, pool_vars,
                 faults_left, c, M, s_min, s_max, i, a, b, it, found_solution,
                 task_id, ss_s, ss_i, ss_s_max, ss_caller, ret_s,
                 engine_error, result, self_s, s_search_running>>

\* self.s_search_running = False; i += 1; s += 1
SearchHitRunning ==
  /\ engine_pc = "ss_hit_run"
  /\ s_search_running' = FALSE
  /\ ss_i' = ss_i + 1
  /\ ss_s' = ss_s + 1
  /\ engine_pc' = "ss_loop"
  /\ UNCHANGED <<config_vars, stop_vars, history_vars, pool_vars,
                 faults_left, c, M, s_min, s_max, i, a, b, it, found_solution,
                 task_id, ss_s_max, ss_caller, ret_s, engine_error, result,
                 self_s, self_i>>

\* return self.__s, self.__i: the first field is read
SearchReturnS ==
  /\ engine_pc = "ss_ret_s"
  /\ ret_s' = self_s
  /\ engine_pc' = "ss_ret_i"
  /\ UNCHANGED <<config_vars, stop_vars, history_vars, pool_vars,
                 shared_vars, faults_left, c, M, s_min, s_max, i, a, b, it,
                 found_solution, task_id, ss_s, ss_i, ss_s_max, ss_caller,
                 engine_error, result>>

\* the second field is read and the pair assigned: s_min, i = self.s_search(..);
\* after the first search the pair is formatted with %i (line 245)
SearchReturnI ==
  /\ engine_pc = "ss_ret_i"
  /\ s_min' = ret_s
  /\ i' = self_i
  /\ IF ss_caller = "first" /\ (ret_s = None \/ self_i = None)
     THEN Raise("TypeError")
     ELSE engine_pc' = "rs_loop" /\ UNCHANGED engine_error
  /\ UNCHANGED <<config_vars, stop_vars, history_vars, pool_vars,
                 shared_vars, faults_left, c, M, s_max, a, b, it,
                 found_solution, task_id, ss_s, ss_i, ss_s_max, ss_caller,
                 ret_s, result>>

\* one pass of "while not self.found_solution" (lines 247-265), up to the
\* call of s_search or of stop_search
SolutionLoop ==
  /\ engine_pc = "rs_loop"
  /\ IF found_solution
     THEN /\ engine_pc' = "rs_stop"
          /\ stop_pc' = [stop_pc EXCEPT !["engine"] = "put_pill"]
          /\ stop_p' = [stop_p EXCEPT !["engine"] = 1]
          /\ UNCHANGED <<M, s_min, s_max, a, b, it, found_solution, ss_s, ss_i,
                         ss_s_max, ss_caller, engine_error>>
     ELSE
       LET iv == only(M)
           narrowed == IF s_min # None THEN narrow_interval(s_min, M) ELSE M
           it1 == IF s_min # None THEN converge_s_interval(s_min, narrowed) ELSE it
           it2 == it_started(it1)
           bounds == it_yield(it2)
       IN
       /\ a' = iv[1]
       /\ b' = iv[2]
       /\ UNCHANGED <<stop_pc, stop_p>>
       /\ IF Cardinality(M) # 1
          THEN LET new_M == narrow_interval(s_min, M)
               IN  /\ M' = new_M
                   /\ IF new_M = {}
                      THEN /\ Raise("IndexError")
                           /\ UNCHANGED <<ss_s, ss_i, ss_s_max, ss_caller>>
                      ELSE /\ CallSearch(s_min, s_max, "loop")
                           /\ UNCHANGED engine_error
                   /\ UNCHANGED <<s_min, s_max, it, found_solution>>
          ELSE IF iv[1] = iv[2]
          THEN /\ found_solution' = TRUE
               /\ UNCHANGED <<M, s_min, s_max, it, ss_s, ss_i, ss_s_max,
                              ss_caller, engine_pc, engine_error>>
          ELSE IF narrowed = {}
          THEN /\ Raise("IndexError")
               /\ UNCHANGED <<M, s_min, s_max, it, found_solution, ss_s, ss_i,
                              ss_s_max, ss_caller>>
          ELSE IF it1 = NoIt
          THEN /\ Raise("UnboundLocalError")
               /\ M' = narrowed
               /\ UNCHANGED <<s_min, s_max, it, found_solution, ss_s, ss_i,
                              ss_s_max, ss_caller>>
          ELSE IF ~it1.started /\ Cardinality(it1.M) # 1
          THEN /\ Raise("ValueError")
               /\ M' = narrowed
               /\ it' = it1
               /\ UNCHANGED <<s_min, s_max, found_solution, ss_s, ss_i,
                              ss_s_max, ss_caller>>
          ELSE /\ M' = narrowed
               /\ it' = [it2 EXCEPT !.r = @ + 1]
               /\ s_min' = bounds[1]
               /\ s_max' = bounds[2]
               /\ CallSearch(bounds[1], bounds[2], "loop")
               /\ UNCHANGED <<found_solution, engine_error>>
  /\ UNCHANGED <<config_vars, history_vars, pool_vars, shared_vars,
                 faults_left, c, i, task_id, ret_s, result, other_calls,
                 task_queue_closed, result_queue_closed>>

\* return a, a % self.n
SearchResult ==
  /\ engine_pc = "rs_return"
  /\ result' = <<a, a % n>>
  /\ engine_pc' = "done"
  /\ UNCHANGED <<config_vars, stop_vars, history_vars, pool_vars,
                 shared_vars, faults_left, c, M, s_min, s_max, i, a, b, it,
                 found_solution, task_id, ss_s, ss_i, ss_s_max, ss_caller,
                 ret_s, engine_error>>

(***************************************************************************)
(* Bleichenbacher.stop_search, run by thread t: the engine at the end of   *)
(* run_search ("engine"), or another thread of the client ("other")        *)
(***************************************************************************)
Threads == {"engine", "other"}
engine_locals ==
  <<c, M, s_min, s_max, i, a, b, it, found_solution, task_id, ss_s, ss_i,
    ss_s_max, ss_caller, ret_s, result>>

\* stop_search goes on to its next step
StopGoto(t, pc) ==
  /\ stop_pc' = [stop_pc EXCEPT ![t] = pc]
  /\ UNCHANGED <<engine_pc, engine_error>>

\* put() on a closed queue: the exception ends stop_search and, in the engine
\* thread, run_search
StopRaise(t) ==
  /\ stop_pc' = [stop_pc EXCEPT ![t] = "raised"]
  /\ IF t = "engine" THEN Raise("AssertionError")
                     ELSE UNCHANGED <<engine_pc, engine_error>>

\* self.__task_queue.put(POISON_PILL) for worker p of the pool
StopPutPill(t) ==
  /\ stop_pc[t] = "put_pill"
  /\ IF task_queue_closed
     THEN StopRaise(t) /\ UNCHANGED task_queue
     ELSE /\ Len(task_queue) < TaskQueueSize
          /\ task_queue' = Append(task_queue, POISON_PILL)
          /\ StopGoto(t, "terminate")
  /\ UNCHANGED <<config_vars, history_vars, shared_vars, engine_locals,
                 worker_vars, collector_vars, faults_left, result_queue,
                 stop_p, other_calls, task_queue_closed, result_queue_closed>>

\* p.terminate(); p.join(2); and the next worker of the pool, if any
StopTerminate(t) ==
  /\ stop_pc[t] = "terminate"
  /\ worker_pc' = [worker_pc EXCEPT ![stop_p[t]] =
                     IF @ \in {"get", "query", "put"} THEN "terminated" ELSE @]
  /\ IF stop_p[t] < pool_size
     THEN /\ stop_p' = [stop_p EXCEPT ![t] = @ + 1]
          /\ StopGoto(t, "put_pill")
     ELSE /\ StopGoto(t, "rq_pill")
          /\ UNCHANGED stop_p
  /\ UNCHANGED <<config_vars, history_vars, shared_vars, engine_locals,
                 collector_vars, faults_left, task_queue, result_queue,
                 worker_task, worker_result, other_calls, task_queue_closed,
                 result_queue_closed>>

\* __result_thread_stop: self.__result_queue.put(POISON_PILL)
StopResultPill(t) ==
  /\ stop_pc[t] = "rq_pill"
  /\ IF result_queue_closed
     THEN StopRaise(t) /\ UNCHANGED result_queue
     ELSE /\ Len(result_queue) < ResultQueueSize
          /\ result_queue' = Append(result_queue, POISON_PILL)
          /\ StopGoto(t, "rq_join")
  /\ UNCHANGED <<config_vars, history_vars, shared_vars, engine_locals,
                 worker_vars, collector_vars, faults_left, task_queue,
                 stop_p, other_calls, task_queue_closed, result_queue_closed>>

\* self.__result_worker.join(2) returns, the collector ended or not;
\* self.__task_queue.close()
StopCloseTasks(t) ==
  /\ stop_pc[t] = "rq_join"
  /\ task_queue_closed' = TRUE
  /\ StopGoto(t, "close_rq")
  /\ UNCHANGED <<config_vars, history_vars, shared_vars, engine_locals,
                 pool_vars, faults_left, stop_p, other_calls,
                 result_queue_closed>>

\* self.__result_queue.close(); stop_search returns
StopCloseResults(t) ==
  /\ stop_pc[t] = "close_rq"
  /\ result_queue_closed' = TRUE
  /\ stop_pc' = [stop_pc EXCEPT ![t] = "returned"]
  /\ IF t = "engine" THEN engine_pc' = "rs_return" ELSE UNCHANGED engine_pc
  /\ UNCHANGED <<config_vars, history_vars, shared_vars, engine_locals,
                 pool_vars, faults_left, stop_p, other_calls, engine_error,
                 task_queue_closed>>

\* the engine's own call, at line 266
EngineStop ==
  \/ StopPutPill("engine")
  \/ StopTerminate("engine")
  \/ StopResultPill("engine")
  \/ StopCloseTasks("engine")
  \/ StopCloseResults("engine")

\* another thread calls stop_search, once run_search has created the pool
OtherCall ==
  /\ engine_pc # "idle"
  /\ stop_pc["other"] \in {"none", "returned"}
  /\ other_calls < MaxStopCalls
  /\ other_calls' = other_calls + 1
  /\ stop_pc' = [stop_pc EXCEPT !["other"] = "put_pill"]
  /\ stop_p' = [stop_p EXCEPT !["other"] = 1]
  /\ UNCHANGED <<config_vars, history_vars, shared_vars, engine_vars,
                 pool_vars, faults_left, task_queue_closed,
                 result_queue_closed>>

OtherStop ==
  \/ StopPutPill("other")
  \/ StopTerminate("other")
  \/ StopResultPill("other")
  \/ StopCloseTasks("other")
  \/ StopCloseResults("other")

(***************************************************************************)
(* The specifications                                                      *)
(***************************************************************************)
Worker == \E w \in Workers : WorkerGet(w) \/ WorkerQuery(w) \/ WorkerPut(w)
Collector ==
  CollectorGet \/ CollectorWriteS \/ CollectorWriteI \/ CollectorWriteRunning
Engine ==
  \/ RunSearch
  \/ SearchStart
  \/ SearchClearS
  \/ SearchClearI
  \/ SearchLoop
  \/ SearchSubmit
  \/ SearchHitS
  \/ SearchHitI
  \/ SearchHitRunning
  \/ SearchReturnS
  \/ SearchReturnI
  \/ SolutionLoop
  \/ SearchResult

\* run_search against the honest oracle, no other thread of the client
Next == Engine \/ EngineStop \/ Worker \/ Collector
Spec == Init /\ [][Next]_vars

\* the same, against an oracle that may give a deviating answer or raise
InitFaulty == InitWith({[key |-> Key1, pool_size |-> 1]}, 0 .. MaxFaults)
SpecFaulty == InitFaulty /\ [][Next]_vars

\* the same as Spec, with another thread of the client that calls stop_search
InitStop == InitWith({st \in Setups : st.key = Key1}, {0})
NextStop == Next \/ OtherCall \/ OtherStop
SpecStop == InitStop /\ [][NextStop]_vars

(***************************************************************************)
(* A worker run on its own, as in the doctest of RSAOracleWorker.run: the  *)
(* caller starts it, puts tasks of any form and the sentinel on its task   *)
(* queue and takes its results; an interrupt may reach the worker process. *)
(***************************************************************************)
\* what the caller puts: a task the oracle accepts, one it rejects, tuples of
\* 3 and of 5 fields, a c that is no number, a c that is None, the sentinel
FedTasks ==
  {<<7, c, 45, 1>>, <<7, c, 43, 2>>, <<7, c, 45>>, <<7, c, 45, 1, 0>>,
   <<7, NotANumber, 45, 3>>, <<7, None, 45, 4>>, POISON_PILL}

InitWorker ==
  /\ InitState({[key |-> Key1, pool_size |-> 1]}, {0})
  /\ interrupts_left = MaxInterrupts
  /\ feeds_left = MaxFeeds
  /\ call_pc = "none" /\ call_args = <<>> /\ call_out = <<>>

rest_of_worker ==
  <<engine_vars, shared_vars, key, B, pool_size, call_pc, call_args, call_out,
    stop_vars, collector_vars, faults_left, history_vars>>

\* worker.start()
StartWorker ==
  /\ worker_pc[1] = "unborn"
  /\ worker_pc' = [worker_pc EXCEPT ![1] = "get"]
  /\ UNCHANGED <<rest_of_worker, task_queue, result_queue, worker_task,
                 worker_result, sigint_ignored, caller_vars>>

\* inq.put(task)
Feed ==
  /\ feeds_left > 0
  /\ Len(task_queue) < TaskQueueSize
  /\ \E task \in FedTasks : task_queue' = Append(task_queue, task)
  /\ feeds_left' = feeds_left - 1
  /\ UNCHANGED <<rest_of_worker, result_queue, worker_vars, sigint_ignored,
                 interrupts_left>>

\* outq.get()
TakeResult ==
  /\ result_queue # <<>>
  /\ result_queue' = Tail(result_queue)
  /\ UNCHANGED <<rest_of_worker, task_queue, worker_vars, sigint_ignored,
                 caller_vars>>

\* SIGINT reaches the process of worker w: nothing happens once the signal is
\* set to SIG_IGN, before that KeyboardInterrupt ends the process
Interrupt(w) ==
  /\ interrupts_left > 0
  /\ worker_pc[w] \in {"get", "query", "put"}
  /\ interrupts_left' = interrupts_left - 1
  /\ worker_pc' = IF sigint_ignored[w] THEN worker_pc
                  ELSE [worker_pc EXCEPT ![w] = "interrupted"]
  /\ UNCHANGED <<rest_of_worker, task_queue, result_queue, worker_task,
                 worker_result, sigint_ignored, feeds_left>>

NextWorker ==
  \/ StartWorker
  \/ Feed
  \/ TakeResult
  \/ \E w \in Workers : Interrupt(w)
  \/ Worker

SpecWorker == InitWorker /\ [][NextWorker]_vars

(***************************************************************************)
(* Bleichenbacher.__init__ on its own, for arguments of any kind.          *)
(* A number argument is [kind, val]: the integer val ("int"), the float    *)
(* val + 1/2 ("float"), the decimal string of val ("str"), or a string     *)
(* that is no number ("bad").  A value that may be a float is kept as the  *)
(* fraction [num, den].                                                    *)
(***************************************************************************)
\* NumUtils.to_int: <<converted, num>>; int() truncates a float towards zero
to_int(x) ==
  IF x.kind = "bad" THEN <<FALSE, 0>>
  ELSE IF x.kind = "float" /\ x.val < 0 THEN <<TRUE, x.val + 1>>
  ELSE <<TRUE, x.val>>

\* the exception that leaves __init__
Fail(error, message) ==
  [ok |-> FALSE, error |-> error, message |-> message, fields |-> <<>>]

\* 2**(self.k - 16): an integer, or a float for a negative exponent
PowerOfTwo(j) ==
  IF j >= 0 THEN [num |-> Pow2(j), den |-> 1] ELSE [num |-> 1, den |-> Pow2(0 - j)]

\* NumUtils.ceil_int(n, self.B3) for the argument n as given and B3 = 3 * Bv:
\* integer division of two integers, true division as soon as one is a float
ceil_int_arg(x, Bv) ==
  IF x.kind = "int" /\ Bv.den = 1
  THEN [num |-> ceil_int(x.val, 3 * Bv.num), den |-> 1]
  ELSE LET p == (IF x.kind = "float" THEN 2 * x.val + 1 ELSE x.val) * Bv.den
           q == (IF x.kind = "float" THEN 2 ELSE 1) * 3 * Bv.num
       IN  [num |-> p + (IF p % q # 0 THEN q ELSE 0), den |-> q]

\* __init__, lines 132-154: the fields of the engine, or the exception
Construct(args) ==
  LET tn == to_int(args.n)
      nn == tn[2]
      bits == bytes_to_hold(nn) * 8
      kk == pow2_round(bits)
      te == to_int(args.e)
      Bv == PowerOfTwo(kk - 16)
  IN  IF ~tn[1] THEN Fail("ValueError", "Modulus must be an integer")
      ELSE IF nn <= 0 THEN Fail("ValueError", "math domain error")
      ELSE IF bits <= 0
      THEN Fail("ValueError", "Number to round must be a positive integer")
      ELSE IF ~te[1] THEN Fail("ValueError", "Exponent must be an integer")
      ELSE IF args.n.kind = "str"
      THEN Fail("TypeError", "unsupported operand type(s) for /")
      ELSE IF ~args.oracle
      THEN Fail("ValueError", "Padding oracle must extend the Oracle base class")
      ELSE IF ~args.callback
      THEN Fail("ValueError",
                "Callback must be a function evaluating oracle output")
      ELSE IF args.pool_size <= 0
      THEN Fail("ValueError",
                "Number of threads in the pool must be strictly positive")
      ELSE [ok |-> TRUE, error |-> "", message |-> "",
            fields |->
              [n |-> nn, e |-> te[2], k |-> kk, B |-> Bv,
               B2 |-> [num |-> 2 * Bv.num, den |-> Bv.den],
               B3 |-> [num |-> 3 * Bv.num, den |-> Bv.den],
               M0 |-> {<< [num |-> 2 * Bv.num, den |-> Bv.den],
                          [num |-> 3 * Bv.num - Bv.den, den |-> Bv.den] >>},
               s_min_start |-> ceil_int_arg(args.n, Bv),
               pool_size |-> args.pool_size]]

\* the moduli tried: around every change of the key width up to 2^24
Moduli ==
  {-5, 0, 1, 2, 100, 127, 128, 129, 200, 255, 256, 257, 300, 4095, 32767,
   32768, 32769, 65535, 65536, 65537, 100000, 1048576, 8388607, 8388608,
   8388609, 8409991, 16777215, 16777216}

NumberKinds == {"int", "float", "str", "bad"}

ConstructArgs ==
  [n : {[kind |-> kd, val |-> IF kd = "bad" THEN 0 ELSE v] :
          kd \in NumberKinds, v \in Moduli},
   e : {[kind |-> "int", val |-> 65537], [kind |-> "str", val |-> 3],
        [kind |-> "float", val |-> 65537], [kind |-> "bad", val |-> 0]},
   oracle : BOOLEAN, callback : BOOLEAN, pool_size : {-1, 0, 1, 2}]

InitConstruct ==
  /\ InitState({[key |-> Key1, pool_size |-> 1]}, {0})
  /\ NoCaller
  /\ call_pc = "ready"
  /\ call_args \in ConstructArgs
  /\ call_out = <<>>

engine_state ==
  <<key, B, pool_size, faults_left, engine_vars, shared_vars, stop_vars,
    pool_vars, history_vars, sigint_ignored, caller_vars>>

\* b = Bleichenbacher(n, oracle, callback, e, pool_size)
CallConstruct ==
  /\ call_pc = "ready"
  /\ call_out' = Construct(call_args)
  /\ call_pc' = "done"
  /\ UNCHANGED <<call_args, engine_state>>

SpecConstruct == InitConstruct /\ [][CallConstruct]_vars

(***************************************************************************)
(* __get_r_values on its own, for the key Key1.                            *)
(***************************************************************************)
Multipliers == {1, 2, 43, 129, 1000, MaxS}

\* ends of the intervals tried, inside and below [2B, 3B - 1]
Ends(Bv) == {1000, 2 * Bv, 2 * Bv + 1, 190537, 3 * Bv - 2, 3 * Bv - 1}

IntervalSets(Bv) ==
  LET ivs == Ends(Bv) \X Ends(Bv)
  IN  {{iv} : iv \in ivs}
      \cup {{iv, jv} : iv \in {x \in ivs : x[1] <= x[2]}, jv \in ivs}

InitRValues ==
  /\ InitState({[key |-> Key1, pool_size |-> 1]}, {0})
  /\ NoCaller
  /\ call_pc = "ready"
  /\ call_args \in [s : Multipliers, M : IntervalSets(B)]
  /\ call_out = <<>>

\* R = self.__get_r_values(s, M): the values of r, or the error of an interval
\* whose ends are out of order
CallGetRValues ==
  /\ call_pc = "ready"
  /\ call_out' =
       IF \E iv \in call_args.M : iv[1] > iv[2]
       THEN Fail("ValueError",
                 "The interval upper boundary must be superior to the lower boundary")
       ELSE [ok |-> TRUE, error |-> "", message |-> "",
             fields |-> get_r_values(call_args.s, call_args.M)]
  /\ call_pc' = "done"
  /\ UNCHANGED <<call_args, engine_state>>

SpecRValues == InitRValues /\ [][CallGetRValues]_vars

(***************************************************************************)
(* class PKCS1_v15: a message is a sequence of bytes.  A builder that      *)
(* draws random bytes is the set of the results it can return.             *)
(***************************************************************************)
HEADER == <<0, 2>>
DELIMITER == <<0>>
MIN_PAD_LEN == 8
MIN_LEN == Len(HEADER) + MIN_PAD_LEN + Len(DELIMITER)
FUNC_TABLE == 1 .. 5

\* the values chr(random_gen.randint(0x0, 0xff)) is drawn from: the null
\* byte and two others
RandomBytes == {0, 1, 255}
\* the bytes of a payload: the null byte and "1"
DataBytes == {0, 49}

\* PKCS1_v15.__init__: self.k, for key_length > 0
PKCS1_k(key_length) == pow2_round(key_length) \div 8

\* seq[lo:hi] and seq[lo:] of Python, for 0 <= lo
Slice(seq, lo, hi) ==
  LET top == IF hi <= Len(seq) THEN hi ELSE Len(seq)
  IN  IF lo >= top THEN <<>> ELSE SubSeq(seq, lo + 1, top)

SliceFrom(seq, lo) == Slice(seq, lo, Len(seq))

\* seq.index(byte, start): the first position at or after start; -1 stands
\* for the ValueError of a byte that is not there
IndexOf(seq, byte, start) ==
  LET at == {j \in start .. Len(seq) - 1 : seq[j + 1] = byte}
  IN  IF at = {} THEN -1 ELSE CHOOSE j \in at : \A j2 \in at : j <= j2

\* a message returned by a builder
Built(m) == [ok |-> TRUE, error |-> "", message |-> "", fields |-> m]

get_random_bytes(length, excluded) == [1 .. length -> RandomBytes \ excluded]

\* get_random_padding that excludes no byte from the last position
get_random_padding_last_any(length) ==
  {front \o <<byte>> : front \in get_random_bytes(length - 1, {0}),
                       byte \in RandomBytes}

get_random_padding(length) == get_random_bytes(length, {0})

\* conforming_message that asks for more than MIN_PAD_LEN bytes of padding
conforming_message_strict(kk, data) ==
  LET padding_len == kk - Len(data) - Len(HEADER) - Len(DELIMITER)
  IN  IF padding_len <= MIN_PAD_LEN
      THEN {Fail("ValueError", "Cleartext too long to be conforming")}
      ELSE {Built(HEADER \o random_padding \o DELIMITER \o data) :
              random_padding \in get_random_padding(padding_len)}

conforming_message(kk, data) ==
  LET padding_len == kk - Len(data) - Len(HEADER) - Len(DELIMITER)
  IN  IF padding_len < MIN_PAD_LEN
      THEN {Fail("ValueError", "Cleartext too long to be conforming")}
      ELSE {Built(HEADER \o random_padding \o DELIMITER \o data) :
              random_padding \in get_random_padding(padding_len)}

\* with index = -1, extra_nulls = 2, pad_back = True
conforming_consecutive_null_bytes(kk, data) ==
  LET extra_nulls == 2
      after(padded) ==
        LET padded_m == padded.fields
            found == IndexOf(padded_m, 0, 1)
            index == found + 1 - (extra_nulls + 1)
        IN  IF found = -1 THEN Fail("ValueError", "substring not found")
            ELSE IF index < 0 \/ index + extra_nulls >= kk
            THEN Fail("IndexError", "Cannot pad null bytes passed data boundary")
            ELSE Built(Slice(padded_m, 0, index) \o <<0, 0>>
                       \o SliceFrom(padded_m, index + extra_nulls))
  IN  {IF padded.ok THEN after(padded) ELSE padded :
         padded \in conforming_message(kk, data)}

\* with header = "\x00\x01"
non_conforming_message_header(kk, data) ==
  LET header == <<0, 1>>
  IN  {IF padded.ok
       THEN Built(header \o SliceFrom(padded.fields, Len(header)))
       ELSE padded : padded \in conforming_message(kk, data)}

\* with byte_index = 4
non_conforming_padding_length(kk, data) ==
  LET abs_pos == Len(HEADER) + 4 - 1
  IN  {IF padded.ok
       THEN Built(Slice(padded.fields, 0, abs_pos) \o <<0>>
                  \o SliceFrom(padded.fields, abs_pos + 1))
       ELSE padded : padded \in conforming_message(kk, data)}

\* with replacement = "\xff"
non_conforming_no_delimiter(kk, data) ==
  LET after(padded) ==
        LET null_index == IndexOf(padded.fields, 0, 1)
        IN  IF null_index = -1 THEN Fail("ValueError", "substring not found")
            ELSE Built(Slice(padded.fields, 0, null_index) \o <<255>>
                       \o SliceFrom(padded.fields, null_index + 1))
  IN  {IF padded.ok THEN after(padded) ELSE padded :
         padded \in conforming_message(kk, data)}

\* getattr(pkcs1, FUNC_TABLE[selector])(data)
Builder(selector, kk, data) ==
  CASE selector = 1 -> conforming_message(kk, data)
    [] selector = 2 -> conforming_consecutive_null_bytes(kk, data)
    [] selector = 3 -> non_conforming_message_header(kk, data)
    [] selector = 4 -> non_conforming_padding_length(kk, data)
    [] selector = 5 -> non_conforming_no_delimiter(kk, data)

\* key lengths in bits: k = 0, 8, 16 and 16 bytes
KeyLengths == {4, 64, 100, 128}

Payloads == UNION {[1 .. l -> DataBytes] : l \in 0 .. MaxData}

InitBuilder ==
  /\ InitState({[key |-> Key1, pool_size |-> 1]}, {0})
  /\ NoCaller
  /\ call_pc = "ready"
  /\ call_args \in [key_length : KeyLengths, selector : FUNC_TABLE,
                    data : Payloads]
  /\ call_out = <<>>

\* PKCS1_v15(key_length), then the builder of the selector on data
CallBuilder ==
  /\ call_pc = "ready"
  /\ call_out' \in Builder(call_args.selector, PKCS1_k(call_args.key_length),
                           call_args.data)
  /\ call_pc' = "done"
  /\ UNCHANGED <<call_args, engine_state>>

SpecBuilder == InitBuilder /\ [][CallBuilder]_vars

(***************************************************************************)
(* __get_search_intervals on its own, for the key Key1.                    *)
(***************************************************************************)
\* the list R: one or two values of r, the same one twice included
RLists ==
  LET rs == {1, 2, 3, 20, 200}
  IN  {<<r>> : r \in rs} \cup (rs \X rs)

InitSearchIntervals ==
  /\ InitState({[key |-> Key1, pool_size |-> 1]}, {0})
  /\ NoCaller
  /\ call_pc = "ready"
  /\ call_args \in [R : RLists, s : {45, 129, 1000, MaxS}, M : IntervalSets(B)]
  /\ call_out = <<>>

\* M = self.__get_search_intervals(R, s, M), the loops going over the list R
CallGetSearchIntervals ==
  /\ call_pc = "ready"
  /\ call_out' =
       Built(get_search_intervals({call_args.R[j] : j \in DOMAIN call_args.R},
                                  call_args.s, call_args.M))
  /\ call_pc' = "done"
  /\ UNCHANGED <<call_args, engine_state>>

SpecSearchIntervals == InitSearchIntervals /\ [][CallGetSearchIntervals]_vars

(***************************************************************************)
(* __converge_s_interval on its own, for the key Key1: the generator is    *)
(* created, then next() is called on it.                                   *)
(***************************************************************************)
ConvergeMultipliers == {1, 45, 129, 1000, 5000}

InitConverge ==
  /\ InitState({[key |-> Key1, pool_size |-> 1]}, {0})
  /\ NoCaller
  /\ call_pc = "ready"
  /\ call_args \in [s : ConvergeMultipliers, M : IntervalSets(B) \cup {{}}]
  /\ call_out = <<>>

\* it = self.__converge_s_interval(s, M): no statement of the body runs yet
CallConverge ==
  /\ call_pc = "ready"
  /\ call_out' = Built([g |-> converge_s_interval(call_args.s, call_args.M),
                        j |-> 0, pair |-> <<>>])
  /\ call_pc' = "created"
  /\ UNCHANGED <<call_args, engine_state>>

\* it.next(): the body runs up to its next yield, or raises
NextIt ==
  /\ call_pc \in {"created", "yielded"}
  /\ call_out.fields.j < MaxYields
  /\ LET g == call_out.fields.g
     IN  IF ~g.started /\ Cardinality(g.M) # 1
         THEN /\ call_out' = Fail("ValueError", "M must contain only one interval")
              /\ call_pc' = "raised"
         ELSE LET g2 == it_started(g)
              IN  /\ call_out' = Built([g |-> [g2 EXCEPT !.r = @ + 1],
                                        j |-> call_out.fields.j + 1,
                                        pair |-> it_yield(g2)])
                  /\ call_pc' = "yielded"
  /\ UNCHANGED <<call_args, engine_state>>

SpecConverge == InitConverge /\ [][CallConverge \/ NextIt]_vars

(***************************************************************************)
(* __narrow_interval on its own, for the key Key1: M is narrowed with s,   *)
(* and what it returns is narrowed with the same s again.                  *)
(***************************************************************************)
NarrowMultipliers == {1, 2, 43, 45, 129, 1000}

InitNarrow ==
  /\ InitState({[key |-> Key1, pool_size |-> 1]}, {0})
  /\ NoCaller
  /\ call_pc = "ready"
  /\ call_args \in [s : NarrowMultipliers, M : IntervalSets(B)]
  /\ call_out = <<>>

\* self.__narrow_interval(s, Mv): the new M, the ValueError of __get_r_values
\* for an interval whose ends are out of order, or the IndexError of the log
\* line 214 for an empty result
NarrowOutcome(s, Mv, first) ==
  IF \E iv \in Mv : iv[1] > iv[2]
  THEN Fail("ValueError",
            "The interval upper boundary must be superior to the lower boundary")
  ELSE LET narrowed == narrow_interval(s, Mv)
       IN  IF narrowed = {}
           THEN Fail("IndexError", "list index out of range")
           ELSE Built([first |-> first, last |-> narrowed])

\* M = self.__narrow_interval(s, M)
CallNarrow ==
  /\ call_pc = "ready"
  /\ call_out' = NarrowOutcome(call_args.s, call_args.M, {})
  /\ call_pc' = IF call_out'.ok THEN "narrowed" ELSE "raised"
  /\ UNCHANGED <<call_args, engine_state>>

\* M = self.__narrow_interval(s, M) once more, with the same s
CallNarrowAgain ==
  /\ call_pc = "narrowed"
  /\ call_out' = NarrowOutcome(call_args.s, call_out.fields.last,
                               call_out.fields.last)
  /\ call_pc' = IF call_out'.ok THEN "narrowed_again" ELSE "raised_again"
  /\ UNCHANGED <<call_args, engine_state>>

SpecNarrow == InitNarrow /\ [][CallNarrow \/ CallNarrowAgain]_vars

(***************************************************************************)
(* NumUtils.ceil_int and NumUtils.floor_int on their own.                  *)
(***************************************************************************)
InitDivide ==
  /\ InitState({[key |-> Key1, pool_size |-> 1]}, {0})
  /\ NoCaller
  /\ call_pc = "ready"
  /\ call_args \in [x : (0 - MaxX) .. MaxX, y : 1 .. MaxY]
  /\ call_out = <<>>

\* NumUtils.ceil_int(x, y) and NumUtils.floor_int(x, y)
CallDivide ==
  /\ call_pc = "ready"
  /\ call_out' = Built([ceil |-> ceil_int(call_args.x, call_args.y),
                        floor |-> floor_int(call_args.x, call_args.y)])
  /\ call_pc' = "done"
  /\ UNCHANGED <<call_args, engine_state>>

SpecDivide == InitDivide /\ [][CallDivide]_vars

(***************************************************************************)
(* Properties                                                              *)
(***************************************************************************)
\* the intervals of M that contain the plaintext
Holding(Mv) == {iv \in Mv : iv[1] <= key.m0 /\ key.m0 <= iv[2]}

\* C1: when run_search returns (a, m) against the honest oracle, M is the
\* single interval [a, a], m is a mod n, and a is the plaintext m0 of the
\* ciphertext it was given.
C1_ReturnsPlaintext ==
  engine_pc = "done" =>
    /\ M = {<<result[1], result[1]>>}
    /\ result[2] = result[1] % n
    /\ result[1] = key.m0

\* run_search has returned its pair
C1_Returned == engine_pc = "done" /\ result # <<>> /\ task_id > 1

\* C2: run_search never ends with an exception, however many intervals a
\* narrowing leaves in M.
C2_NeverRaises == engine_pc # "raised"

\* C3: at every step of run_search exactly one interval of M contains the
\* plaintext m0.
C3_OneIntervalHoldsPlaintext ==
  engine_pc # "idle" => Cardinality(Holding(M)) = 1

\* a narrowing has left two intervals in M
C3_TwoIntervals == Cardinality(M) = 2 /\ Cardinality(Holding(M)) = 1

\* C4: every interval [a, b] of M has 2B <= a <= b <= 3B - 1, and no two
\* intervals of M overlap.
C4_IntervalsInRangeDisjoint ==
  /\ \A iv \in M : B2 <= iv[1] /\ iv[1] <= iv[2] /\ iv[2] <= B3 - 1
  /\ \A iv1, iv2 \in M :
       iv1 # iv2 => iv1[2] < iv2[1] \/ iv2[2] < iv1[1]

\* M holds two intervals, one of them narrowed from both sides
C4_Narrowed ==
  /\ Cardinality(M) >= 2
  /\ \E iv \in M : B2 < iv[1] /\ iv[2] < B3 - 1

\* the workers that hold a result they have not put on the result queue yet
Unpublished ==
  { worker_result[w] : w \in {v \in Workers : worker_pc[v] \in {"put", "terminated"}} }

\* C7: a worker publishes a result if and only if oracle.query returned true
\* for the task, and the result is exactly (task_id, True, s, i) of that task.
C7_PublishesExactlyHits ==
  /\ \A r \in published :
       \E task \in accepted : r = <<task[1], TRUE, task[3], task[4]>>
  /\ \A task \in accepted :
       \/ <<task[1], TRUE, task[3], task[4]>> \in published
       \/ <<task[1], TRUE, task[3], task[4]>> \in Unpublished
  /\ \A task \in rejected : \A r \in published :
       ~(r[1] = task[1] /\ r[3] = task[3] /\ r[4] = task[4])

\* a worker has published a hit and discarded a task the oracle rejected
C7_HitPublished ==
  /\ published # {}
  /\ rejected # {}
  /\ \A w \in Workers : worker_pc[w] # "put"

\* C5: a result whose task id is not the id of the search in progress is
\* discarded: the collector's writes for it leave self.__s, self.__i and
\* self.s_search_running as they are.
C5_StaleResultDiscarded ==
  [][ ( /\ collector_pc \in {"write_s", "write_i", "write_run"}
        /\ collector_pc' # collector_pc
        /\ engine_pc \in SearchPcs
        /\ collector_result[1] # task_id )
      => UNCHANGED shared_vars ]_vars

\* C6: the first result of the episode that the collector takes is the one
\* s_search returns; a later result does not change the pair returned.
C6_FirstResultWins ==
  ( /\ engine_pc = "rs_loop"
    /\ first_collected # <<>>
    /\ first_collected[1] = task_id )
  => (s_min = first_collected[3] /\ i = first_collected[4])

\* C8: a worker whose oracle.query raised is still alive and goes on with the
\* next task.
C8_WorkerSurvivesOracleError ==
  \A w \in raised_on : worker_pc[w] # "dead"

\* C9: with stop_search called by another thread while run_search is in
\* progress, the engine thread raises no error.
C9_StopLeavesEngineWithoutError ==
  other_calls > 0 => engine_pc # "raised"

\* C10: a second stop_search, called after the first one has returned, raises
\* no error.
C10_SecondStopRaisesNothing ==
  ~(other_calls = 2 /\ stop_pc["other"] = "raised")

\* thread t's stop_search is past its timed join of worker w
Joined(t, w) ==
  \/ stop_pc[t] \in {"rq_pill", "rq_join", "close_rq", "returned"}
  \/ stop_pc[t] \in {"put_pill", "terminate"} /\ stop_p[t] > w

\* C11: stop_search terminates a worker by force only after its timed join of
\* that worker: no worker gets terminated in a step before which no
\* stop_search has joined it.
C11_TerminateOnlyAfterJoin ==
  [][ \A w \in Workers :
        (worker_pc[w] # "terminated" /\ worker_pc'[w] = "terminated")
        => \E t \in Threads : Joined(t, w) ]_vars

\* the pool and the collector have been stopped
TornDown ==
  /\ \A w \in Pool : worker_pc[w] \notin {"get", "query", "put"}
  /\ collector_pc \notin {"get", "write_s", "write_i", "write_run"}

\* run_search has ended with an error because narrowing M with the s of the
\* last search leaves no interval
EmptyNarrowing ==
  /\ engine_pc = "raised"
  /\ s_min # None
  /\ M # {}
  /\ narrow_interval(s_min, M) = {}

\* C12: when a narrowing step leaves M empty, run_search ends with an error
\* and the worker pool and the collector have been torn down by then.
C12_EmptyAbortTearsDown == EmptyNarrowing => TornDown

\* the error of the specification that an exception of __init__ stands for
ErrorName(out) ==
  IF out.error # "ValueError" THEN out.error
  ELSE IF out.message = "Padding oracle must extend the Oracle base class"
  THEN "InvalidOracle"
  ELSE IF out.message = "Callback must be a function evaluating oracle output"
  THEN "InvalidCallback"
  ELSE IF out.message =
            "Number of threads in the pool must be strictly positive"
  THEN "InvalidPoolSize"
  ELSE "InvalidNumber"

\* a number argument that is an integer, given as a number or as its digits
IntegerValued(x) == x.kind \in {"int", "str"}

\* the errors the arguments of a construction call for
InvalidArguments(args) ==
  {"InvalidNumber" : x \in {y \in {args.n, args.e} : ~IntegerValued(y)}}
  \cup {"InvalidNumber" : x \in {y \in {args.n} : y.val <= 0}}
  \cup {"InvalidOracle" : x \in {y \in {args.oracle} : ~y}}
  \cup {"InvalidCallback" : x \in {y \in {args.callback} : ~y}}
  \cup {"InvalidPoolSize" : x \in {y \in {args.pool_size} : y <= 0}}

\* C13: construction succeeds when every argument is valid, and otherwise
\* fails with the error of one of its invalid arguments: InvalidOracle,
\* InvalidCallback, InvalidPoolSize (pool_size <= 0) or InvalidNumber (n or e
\* not integer-valued).
C13_ConstructionValidatesArguments ==
  call_pc = "done" =>
    IF InvalidArguments(call_args) = {}
    THEN call_out.ok
    ELSE ~call_out.ok /\ ErrorName(call_out) \in InvalidArguments(call_args)

\* the fraction x is less than the fraction y
Less(x, y) == x.num * y.den < y.num * x.den

\* the fraction x is the integer ceil(num / B3), and that integer is at least 1
IsCeilOf(x, num, Bv3) ==
  /\ x.num % x.den = 0
  /\ LET v == x.num \div x.den
     IN  /\ v >= 1
         /\ v * Bv3.num >= num * Bv3.den
         /\ (v - 1) * Bv3.num < num * Bv3.den

\* C14: right after a successful construction, for every accepted modulus n,
\* B2 = 2B < B3 = 3B, s_min_start = ceil(n / B3) >= 1 and the initial interval
\* set is exactly {[B2, B3 - 1]}.
C14_FieldsAfterConstruction ==
  (call_pc = "done" /\ call_out.ok) =>
    LET f == call_out.fields
    IN  /\ f.B2 = [num |-> 2 * f.B.num, den |-> f.B.den]
        /\ f.B3 = [num |-> 3 * f.B.num, den |-> f.B.den]
        /\ Less(f.B2, f.B3)
        /\ IsCeilOf(f.s_min_start, f.n, f.B3)
        /\ f.M0 = {<<f.B2, [num |-> f.B3.num - f.B3.den, den |-> f.B3.den]>>}

\* 2^(kk - 16) <= num < 2^kk, for num >= 1
InKeyWidth(num, kk) ==
  IF kk >= 16
  THEN Pow2(kk - 16) <= num /\ num \div Pow2(kk - 16) < Pow2(16)
  ELSE num < Pow2(kk)

\* C19: for every modulus n the engine accepts, the key width k computed at
\* construction satisfies 2^(k-16) <= n < 2^k, whatever the bit length of n.
C19_ModulusWithinKeyWidth ==
  (call_pc = "done" /\ call_out.ok) =>
    InKeyWidth(call_out.fields.n, call_out.fields.k)

\* every interval of Mv has its ends in order
WellFormed(Mv) == \A iv \in Mv : iv[1] <= iv[2]

\* the integers r with ceil((a*s - B3 + 1)/n) <= r <= floor((b*s - B2)/n) for
\* an interval [a, b] of Mv
RValuesOf(s, Mv) ==
  {r \in -2 .. MaxR :
     \E iv \in Mv : /\ r * n >= iv[1] * s - B3 + 1
                    /\ r * n <= iv[2] * s - B2}

\* C20: for every s >= 1 and every set M of well-formed intervals,
\* get_r_values(s, M) returns, for each [a, b] in M, every integer r with
\* ceil((a*s - B3 + 1)/n) <= r <= floor((b*s - B2)/n) and no other value, also
\* when a*s - B3 + 1 is negative.
C20_RValuesExact ==
  (call_pc = "done" /\ call_args.s >= 1 /\ WellFormed(call_args.M)) =>
    /\ call_out.ok
    /\ call_out.fields = RValuesOf(call_args.s, call_args.M)

\* a call with a negative a*s - B3 + 1 that returns more than one r
C20_NegativeNumerator ==
  /\ call_pc = "done"
  /\ call_out.ok
  /\ \E iv \in call_args.M : iv[1] * call_args.s - B3 + 1 < 0
  /\ Cardinality(call_args.M) = 2
  /\ Cardinality(call_out.fields) > 1

\* the multipliers of [lo, hi] that the oracle accepts
AcceptedIn(lo, hi) == {s \in lo .. hi : HonestQuery(CPrime(c, s))}

\* a bounded s_search(c, s_min, s_max) has read the s it returns
BoundedSearchReturns ==
  engine_pc = "ss_ret_i" /\ ss_s_max # None

\* C15: a bounded s_search(c, s_min, s_max) returns the smallest s of
\* [s_min, s_max] that the oracle accepts, or None when it accepts none; the s
\* returned is never outside [s_min, s_max], also while the pool and the
\* collector are running.
C15_BoundedSearchInRange ==
  BoundedSearchReturns =>
    LET hits == AcceptedIn(s_min, s_max)
    IN  IF hits = {} THEN ret_s = None
        ELSE ret_s \in hits /\ \A s \in hits : ret_s <= s

\* C16: a narrowing step that leaves more than one interval in M is followed
\* by a new search with no upper bound on s, whose s narrows M again, until M
\* has one interval; the engine does not fail or enter convergence while M
\* has more than one interval.
C16_ManyIntervalsSearchAgain ==
  [][ (M' # M /\ Cardinality(M') > 1)
      => (engine_pc' = "ss_run" /\ ss_s_max' = None /\ engine_error' = "none")
    ]_vars

\* C17: for every key width k and payload D with len(D) <= k - 11,
\* conforming_message(D) is exactly k bytes long: 0x00 0x02, then nonzero bytes
\* at positions 2 .. k-len(D)-2 (at least 8 of them), 0x00 at position
\* k-len(D)-1, and D in the last len(D) bytes, so that what follows the first
\* 0x00 after the header is D.
C17_ConformingLayout ==
  LET kk == PKCS1_k(call_args.key_length)
      D == call_args.data
      m == call_out.fields
  IN  ( /\ call_pc = "done"
        /\ call_args.selector = 1
        /\ Len(D) <= kk - 11 )
      => /\ call_out.ok
         /\ Len(m) = kk
         /\ m[1] = 0 /\ m[2] = 2
         /\ \A p \in 2 .. kk - Len(D) - 2 : m[p + 1] # 0
         /\ (kk - Len(D) - 2) - 2 + 1 >= 8
         /\ m[kk - Len(D) - 1 + 1] = 0
         /\ SubSeq(m, kk - Len(D) + 1, kk) = D
         /\ SliceFrom(m, IndexOf(m, 0, 2) + 1) = D

\* conforming_message has padded a payload of the greatest length, with a null
\* byte in it
C17_LongestPayloadPadded ==
  /\ call_pc = "done"
  /\ call_args.selector = 1
  /\ call_out.ok
  /\ Len(call_args.data) = PKCS1_k(call_args.key_length) - 11
  /\ \E p \in 1 .. Len(call_args.data) : call_args.data[p] = 0

\* the exception is the one for a payload that is too long
CleartextTooLong(out) ==
  ~out.ok /\ out.error = "ValueError"
  /\ out.message = "Cleartext too long to be conforming"

\* C18: conforming_message fails with CleartextTooLong exactly when
\* len(D) > k - 11 (length k - 11 is accepted, k - 10 rejected), and the
\* builders of the selectors 2 to 5 reject the same payloads.
C18_TooLongExactlyAboveLimit ==
  call_pc = "done" =>
    /\ CleartextTooLong(call_out)
         <=> Len(call_args.data) > PKCS1_k(call_args.key_length) - 11
    /\ call_out.ok
         <=> Len(call_args.data) <= PKCS1_k(call_args.key_length) - 11

\* a variant builder has rejected a payload of length k - 10
C18_VariantRejects ==
  /\ call_pc = "done"
  /\ call_args.selector \in 2 .. 5
  /\ Len(call_args.data) = PKCS1_k(call_args.key_length) - 10
  /\ Len(call_args.data) > 0
  /\ CleartextTooLong(call_out)

\* C26: for all integers x, negative ones included, and y > 0, ceil_int(x, y)
\* is the least integer q with q*y >= x and floor_int(x, y) the greatest
\* integer q with q*y <= x; ceil_int(0, y) = 0.
C26_CeilFloorExact ==
  call_pc = "done" =>
    LET x == call_args.x
        y == call_args.y
        cq == call_out.fields.ceil
        fq == call_out.fields.floor
    IN  /\ cq * y >= x /\ (cq - 1) * y < x
        /\ fq * y <= x /\ (fq + 1) * y > x
        /\ (x = 0 => cq = 0)

\* both have been computed for a negative x that y does not divide
C26_NegativeInexact ==
  /\ call_pc = "done"
  /\ call_args.x < 0
  /\ call_args.x % call_args.y # 0
  /\ call_out.fields.ceil = call_out.fields.floor + 1

\* the greater and the lesser of two integers
Max2(x, y) == IF x >= y THEN x ELSE y
Min2(x, y) == IF x <= y THEN x ELSE y

\* ceil(x / y), for y > 0
CeilDiv(x, y) == 0 - ((0 - x) \div y)

\* C21: get_search_intervals(R, s, M) returns exactly the pairs
\* (max(a, ceil((B2 + r*n)/s)), min(b, floor((B3 - 1 + r*n)/s))) over all
\* [a, b] of M and all r of R whose lower bound is <= the upper bound; a value
\* twice in R, or a pair obtained twice, gives one interval.
C21_SearchIntervalsExact ==
  call_pc = "done" =>
    LET s == call_args.s
        pairs == {<< Max2(iv[1], CeilDiv(B2 + call_args.R[j] * n, s)),
                     Min2(iv[2], (B3 - 1 + call_args.R[j] * n) \div s) >> :
                    iv \in call_args.M, j \in DOMAIN call_args.R}
    IN  call_out.fields = {p \in pairs : p[1] <= p[2]}

\* a value twice in R and two intervals of M have given a single interval
C21_DuplicatesGiveOne ==
  /\ call_pc = "done"
  /\ Len(call_args.R) = 2
  /\ call_args.R[1] = call_args.R[2]
  /\ Cardinality(call_args.M) = 2
  /\ Cardinality(call_out.fields) = 1
  /\ \A iv \in call_args.M :
       get_search_intervals({call_args.R[1]}, call_args.s, {iv})
         = call_out.fields

\* the j-th pair (from 0) of the claim, for the one interval [a, b] and s
ConvergePair(s, iv, j) ==
  LET r0 == (2 * (iv[2] * s - B2)) \div n
  IN  << CeilDiv(B2 + (r0 + j) * n, iv[2]), (B3 + (r0 + j) * n) \div iv[1] >>

\* C22: for M = {[a, b]} the j-th pair yielded by converge_s_interval(s, M) is
\* (ceil((B2 + (r0 + j)*n)/b), floor((B3 + (r0 + j)*n)/a)) with
\* r0 = floor(2*(b*s - B2)/n); another pair can always be asked for; with M
\* not of exactly one interval the generator raises instead of yielding.
C22_ConvergeYields ==
  /\ call_pc = "yielded" =>
       /\ Cardinality(call_args.M) = 1
       /\ call_out.fields.pair =
            ConvergePair(call_args.s, only(call_args.M), call_out.fields.j - 1)
       /\ call_out.fields.j < MaxYields => ENABLED NextIt
  /\ call_pc = "raised" =>
       /\ Cardinality(call_args.M) # 1
       /\ call_out.error = "ValueError"
  /\ (call_pc = "created" /\ Cardinality(call_args.M) = 1) => ENABLED NextIt

\* the generator has yielded its third pair
C22_ThirdPair ==
  /\ call_pc = "yielded"
  /\ call_out.fields.j = 3
  /\ call_out.fields.pair[1] <= call_out.fields.pair[2]

\* every interval of Mv lies within an interval of Mw
Within(Mv, Mw) ==
  \A p \in Mv : \E iv \in Mw : iv[1] <= p[1] /\ p[2] <= iv[2]

\* C29: narrowing never widens the candidate set: for every s >= 1 and every
\* well-formed M, each interval of narrow_interval(s, M) lies within an
\* interval of M, also after a further narrowing step.
C29_NarrowingNeverWidens ==
  /\ call_pc = "narrowed" => Within(call_out.fields.last, call_args.M)
  /\ call_pc = "narrowed_again" =>
       /\ Within(call_out.fields.last, call_out.fields.first)
       /\ Within(call_out.fields.last, call_args.M)

\* a narrowing step has cut an interval at both ends
C29_CutAtBothEnds ==
  /\ call_pc = "narrowed"
  /\ \E p \in call_out.fields.last : \E iv \in call_args.M :
       iv[1] < p[1] /\ p[1] < p[2] /\ p[2] < iv[2]

\* C30: narrowing twice with the same multiplier is idempotent: for every
\* s >= 1 and every well-formed M with a non-empty narrow_interval(s, M),
\* narrowing that result with s again returns it unchanged.
C30_NarrowingIdempotent ==
  /\ call_pc # "raised_again"
  /\ call_pc = "narrowed_again" => call_out.fields.last = call_out.fields.first

\* a result that differs from M has been narrowed again
C30_NarrowedTwice ==
  /\ call_pc = "narrowed_again"
  /\ call_out.fields.first # call_args.M
  /\ Cardinality(call_out.fields.last) = 2

\* a worker takes a task from its queue in this step
Pulls(task) ==
  /\ task_queue # <<>>
  /\ Head(task_queue) = task
  /\ task_queue' = Tail(task_queue)

\* C24: a task that does not parse as (task_id, c, s, i), a tuple without
\* exactly 4 fields or one whose c is not an integer, causes no oracle query
\* and no published result, and the worker stays alive, ready for the next
\* task.
C24_MalformedTaskSkipped ==
  [][ \A task \in FedTasks :
        ( /\ Pulls(task)
          /\ task # POISON_PILL
          /\ (Len(task) # 4 \/ task[2] \in {None, NotANumber}) )
        => UNCHANGED <<worker_pc, worker_task, result_queue, history_vars>>
    ]_vars

\* C25: a worker ignores interrupts for its whole lifetime: an interrupt that
\* reaches it between its start and its exit, also before its first task has
\* been parsed, does not stop it.
C25_InterruptNeverStopsWorker ==
  [][ interrupts_left' < interrupts_left => worker_pc' = worker_pc ]_vars

\* the tasks put on the task queue so far: those still on it, those a worker
\* has taken, those a worker's query has answered
Enqueued ==
  {task_queue[j] : j \in {x \in 1 .. Len(task_queue) :
                            task_queue[x] # POISON_PILL}}
  \cup {worker_task[w] : w \in {v \in Workers : worker_task[v] # <<>>}}
  \cup accepted \cup rejected

\* the tasks are those of one unbounded search from s_min_start: s = s_min + i - 1
\* for i = 1, 2, 3, ... without a gap, one task id, the ciphertext of the
\* search; the task queue holds them in the order of i
TasksInOrder ==
  /\ \A task \in Enqueued :
       /\ Len(task) = 4
       /\ task[1] >= 1 /\ task[1] <= task_id
       /\ task[2] = c
       /\ task[4] >= 1
       /\ task[3] = s_min_start + task[4] - 1
       /\ task[4] > 1 =>
            \E before \in Enqueued :
              before[1] = task[1] /\ before[4] = task[4] - 1
  /\ \A t1, t2 \in Enqueued : t1[1] = t2[1]
  /\ \A j \in 1 .. Len(task_queue) - 1 :
       (task_queue[j] # POISON_PILL /\ task_queue[j + 1] # POISON_PILL)
         => /\ task_queue[j + 1][4] = task_queue[j][4] + 1
            /\ task_queue[j + 1][3] = task_queue[j][3] + 1

\* C23: within one unbounded search the engine enqueues tasks in order with
\* s = s_min, s_min + 1, ... and i = 1, 2, ..., all with the same task id;
\* each new episode has a task id greater than every earlier one; every task
\* a worker receives was enqueued by the engine.
C23_TasksEnqueuedInOrder ==
  /\ []TasksInOrder
  /\ [][task_id' # task_id => task_id' > task_id]_vars

\* a worker holds the third task of the search while the engine has gone on
C23_ThirdTaskTaken ==
  /\ \E w \in Workers : worker_pc[w] = "query" /\ worker_task[w][4] = 3
  /\ task_queue # <<>>
  /\ task_id = 1

\* an unbounded s_search(c, s_min) has read the s it returns
UnboundedSearchReturns ==
  engine_pc = "ss_ret_i" /\ ss_s_max = None

\* C27: an unbounded s_search returns only after a worker result has been
\* collected, and the s it returns is never None: it is a multiplier for which
\* a worker's oracle query was accepted, whatever the interleaving of the
\* engine and the collector.
C27_UnboundedSearchReturnsHit ==
  UnboundedSearchReturns =>
    /\ first_collected # <<>>
    /\ ret_s # None
    /\ \E task \in accepted : task[3] = ret_s

\* an unbounded search returns while a second result is on its way
C27_ReturnsWithResultPending ==
  /\ UnboundedSearchReturns
  /\ Cardinality(published) = 2

\* C28: the pair (s, i) that s_search returns comes from one result tuple, or
\* from the hit of the bounded search itself, or is (None, None) for a bounded
\* search without a hit: never the s of one result with the i of another, never
\* an s with i = None.
C28_ReturnedPairFromOneResult ==
  engine_pc = "rs_loop" =>
    \/ \E r \in published : s_min = r[3] /\ i = r[4]
    \/ ss_s_max # None /\ s_min = ss_s - 1 /\ i = ss_i - 1
    \/ ss_s_max # None /\ s_min = None /\ i = None

\* the collector takes the sentinel from the result queue
SentinelTaken ==
  /\ collector_pc = "get"
  /\ result_queue # <<>>
  /\ Head(result_queue) = POISON_PILL
  /\ result_queue' = Tail(result_queue)

\* C31: when the collector takes the sentinel from the result queue it leaves
\* its loop through the break, without an exception, and leaves the recorded
\* s, the recorded i and the s_search_running flag as they were.
C31_SentinelEndsCollectorNormally ==
  [][ SentinelTaken =>
        /\ collector_pc' = "returned"
        /\ UNCHANGED <<self_s, self_i, s_search_running>> ]_vars

\* the collector has taken the sentinel and its thread has ended by a
\* TypeError from the log line that indexes the result
C31_CollectorRaisedOnSentinel ==
  /\ collector_pc = "crashed"
  /\ collector_result = POISON_PILL
  /\ ~result_queue_closed

\* the collector's handling of the sentinel leaves self.__s, self.__i and
\* s_search_running untouched
C31_SentinelLeavesRecordUntouched ==
  [][ SentinelTaken => UNCHANGED <<self_s, self_i, s_search_running>> ]_vars

====
